---- MODULE Spec2Model ----
(***************************************************************************)
(* Model of utils.py: the state encoder (generate_price_state,             *)
(* generate_portfolio_state, generate_combined_state) and the performance  *)
(* metrics (sharpe_ratio_custom, maximum_drawdown).                        *)
(*                                                                         *)
(* The functions are pure; each specification draws the arguments of a     *)
(* call in Init and has one action per function, which stores what the     *)
(* call returns (or the exception it raises) in `result`.                  *)
(*                                                                         *)
(* Numbers are binary floating-point values, as numpy and Python compute   *)
(* them: every arithmetic operation is the exact result rounded to the     *)
(* nearest representable value, ties to even, with overflow to infinity    *)
(* and gradual underflow.  The exponent range is that of float64; the      *)
(* significand is Precision bits wide instead of 53 so that significands   *)
(* fit the integers of the model checker.                                  *)
(***************************************************************************)
EXTENDS Integers, Sequences, FiniteSets

VARIABLES
    stock_prices,       \* the price series handed to the encoder
    t,                  \* the current time index
    n,                  \* the window length
    balance,            \* the agent's balance
    num_holding,        \* the number of shares held
    return_rates,       \* the daily return rates handed to sharpe_ratio_custom
    portfolio_values,   \* the portfolio values handed to maximum_drawdown
    pc,                 \* "input", or the name of the function that has returned
    result              \* what the call returned: [err, val]

vars == <<stock_prices, t, n, balance, num_holding, return_rates,
          portfolio_values, pc, result>>

----------------------------------------------------------------------------
(* Bounds of the model. *)

\* Width of the significand in bits (53 in float64).
Precision == 5
\* Longest price series.
MaxPrices == 3
\* Largest window length.
MaxWindow == 3
\* Longest sequence of return rates.
MaxReturns == 3
\* Longest sequence of portfolio values.
MaxValues == 4

\* float64: finite values are below 2^Emax.
Emax == 1024

----------------------------------------------------------------------------
(* Floating-point values: s * m * 2^e.  A normal value has                 *)
(* 2^(Precision-1) <= m < 2^Precision; a subnormal one has e = Emin and a  *)
(* smaller m; zero is m = 0.  Each value has one representation.           *)

RECURSIVE Pow2(_)
Pow2(k) == IF k <= 0 THEN 1 ELSE 2 * Pow2(k - 1)

\* Exponent of the smallest subnormal value (-1074 in float64).
Emin == 3 - Emax - Precision

Zero == [k |-> "fin", s |-> 1, m |-> 0, e |-> 0]
Inf(sign) == [k |-> "inf", s |-> sign, m |-> 0, e |-> 0]
NaN == [k |-> "nan", s |-> 1, m |-> 0, e |-> 0]
\* What a division by zero yields (ZeroDivisionError for Python floats).
DivZero == [k |-> "divzero", s |-> 1, m |-> 0, e |-> 0]

IsZero(a) == a.k = "fin" /\ a.m = 0

\* num / den rounded to the nearest integer, ties to even.
RNE(num, den) ==
    LET q == num \div den
        r == num % den
    IN  IF 2 * r > den \/ (2 * r = den /\ q % 2 = 1) THEN q + 1 ELSE q

\* (num / den) * 2^x rewritten so that 2^(Precision-1) <= num/den < 2^Precision.
RECURSIVE Scale(_, _, _)
Scale(num, den, x) ==
    IF num >= den * Pow2(Precision) THEN Scale(num, 2 * den, x + 1)
    ELSE IF num < den * Pow2(Precision - 1) THEN Scale(2 * num, den, x - 1)
    ELSE <<num, den, x>>

\* sign * (num / den) * 2^x rounded to the nearest representable value.
Round(sign, num, den, x) ==
    IF num = 0 THEN Zero
    ELSE LET sc == Scale(num, den, x)
             sn == sc[1]
             sd == sc[2]
             sx == sc[3]
         IN  IF sx < Emin
             THEN \* subnormal range: the exponent stays at Emin
                  IF Emin - sx > Precision + 1 THEN Zero
                  ELSE LET sm == RNE(sn, sd * Pow2(Emin - sx))
                       IN  IF sm = 0 THEN Zero
                           ELSE [k |-> "fin", s |-> sign, m |-> sm, e |-> Emin]
             ELSE LET rm == RNE(sn, sd)
                      fm == IF rm = Pow2(Precision) THEN Pow2(Precision - 1) ELSE rm
                      fe == IF rm = Pow2(Precision) THEN sx + 1 ELSE sx
                  IN  IF fe + Precision > Emax THEN Inf(sign)
                      ELSE [k |-> "fin", s |-> sign, m |-> fm, e |-> fe]

FromInt(i) == IF i < 0 THEN Round(-1, -i, 1, 0) ELSE Round(1, i, 1, 0)
One == FromInt(1)

FNeg(a) == IF a.k = "inf" \/ (a.k = "fin" /\ a.m # 0) THEN [a EXCEPT !.s = -a.s] ELSE a

\* |a| < |b| for values that are not NaN.
MagLt(a, b) ==
    IF a.k = "inf" THEN FALSE
    ELSE IF b.k = "inf" THEN TRUE
    ELSE IF a.m = 0 THEN b.m # 0
    ELSE IF b.m = 0 THEN FALSE
    ELSE a.e < b.e \/ (a.e = b.e /\ a.m < b.m)

\* a < b; every comparison with NaN is false.
FLt(a, b) ==
    IF a.k = "nan" \/ b.k = "nan" THEN FALSE
    ELSE IF a.s = 1 /\ b.s = 1 THEN MagLt(a, b)
    ELSE IF a.s = -1 /\ b.s = -1 THEN MagLt(b, a)
    ELSE a.s = -1

FLe(a, b) == a.k # "nan" /\ b.k # "nan" /\ ~FLt(b, a)

FAdd(a, b) ==
    IF a.k = "nan" \/ b.k = "nan" THEN NaN
    ELSE IF a.k = "inf" THEN (IF b.k = "inf" /\ b.s # a.s THEN NaN ELSE a)
    ELSE IF b.k = "inf" THEN b
    ELSE IF a.m = 0 THEN b
    ELSE IF b.m = 0 THEN a
    ELSE IF a.e - b.e > Precision + 2 THEN a   \* b is below an eighth of a's last place
    ELSE IF b.e - a.e > Precision + 2 THEN b
    ELSE LET lo  == IF a.e < b.e THEN a.e ELSE b.e
             sum == a.s * a.m * Pow2(a.e - lo) + b.s * b.m * Pow2(b.e - lo)
         IN  IF sum < 0 THEN Round(-1, -sum, 1, lo) ELSE Round(1, sum, 1, lo)

FSub(a, b) == FAdd(a, FNeg(b))

FMul(a, b) ==
    IF a.k = "nan" \/ b.k = "nan" THEN NaN
    ELSE IF a.k = "inf" \/ b.k = "inf"
         THEN (IF IsZero(a) \/ IsZero(b) THEN NaN ELSE Inf(a.s * b.s))
    ELSE Round(a.s * b.s, a.m * b.m, 1, a.e + b.e)

FDiv(a, b) ==
    IF a.k = "nan" \/ b.k = "nan" THEN NaN
    ELSE IF IsZero(b) THEN DivZero
    ELSE IF a.k = "inf" THEN (IF b.k = "inf" THEN NaN ELSE Inf(a.s * b.s))
    ELSE IF b.k = "inf" THEN Zero
    ELSE Round(a.s * b.s, a.m, b.m, a.e - b.e)

\* The integer square root: the largest r with r * r <= v.
Isqrt(v) == CHOOSE r \in 0..Pow2(Precision + 2) : r * r <= v /\ (r + 1) * (r + 1) > v

FSqrt(a) ==
    IF a.k = "nan" THEN NaN
    ELSE IF IsZero(a) THEN Zero
    ELSE IF a.s = -1 THEN NaN
    ELSE IF a.k = "inf" THEN a
    ELSE LET sh == IF (a.e - Precision) % 2 = 0 THEN Precision + 2 ELSE Precision + 3
             v  == a.m * Pow2(sh)            \* a = v * 2^(a.e - sh), a.e - sh even
             r  == Isqrt(v)
             h  == (a.e - sh) \div 2
         IN  \* an inexact root lies strictly between r and r + 1, never on a tie
             IF r * r = v THEN Round(1, r, 1, h) ELSE Round(1, 2 * r + 1, 2, h)

\* The integer an integer-valued finite value stands for.
IntVal(a) == IF a.e >= 0 THEN a.s * a.m * Pow2(a.e) ELSE a.s * (a.m \div Pow2(-a.e))

\* np.exp, with its argument counted in units of ln 2: on the integers
\* e^(x ln 2) = 2^x, which overflows to infinity and underflows to zero
\* where float64 does.
Exp(a) ==
    IF a.k = "nan" THEN NaN
    ELSE IF a.k = "inf" THEN (IF a.s = 1 THEN a ELSE Zero)
    ELSE Round(1, 1, 1, IntVal(a))

\* np.log, kept as the term log(m * 2^e) on the positive values; log(0) is
\* -inf and the logarithm of a negative value is NaN (numpy warns, it does
\* not raise).
Log(a) ==
    IF a.k = "nan" THEN NaN
    ELSE IF IsZero(a) THEN Inf(-1)
    ELSE IF a.s = -1 THEN NaN
    ELSE IF a.k = "inf" THEN a
    ELSE [k |-> "log", s |-> 1, m |-> a.m, e |-> a.e]

----------------------------------------------------------------------------
(* Python lists, indexed from 0. *)

Ok(v) == [err |-> "none", val |-> v]
Raise(exc) == [err |-> exc, val |-> <<>>]

InRange(list, i) == 0 <= i /\ i < Len(list)
Index(list, i) == list[i + 1]

\* list[a:b] for 0 <= a: the elements a .. min(b, len) - 1.
Slice(list, a, b) ==
    LET hi == IF b < Len(list) THEN b ELSE Len(list)
    IN  IF hi <= a THEN <<>> ELSE [i \in 1..(hi - a) |-> list[a + i]]

\* count * [x]
Repeat(count, x) == [i \in 1..count |-> x]

----------------------------------------------------------------------------
(* The state encoder. *)

\* sigmoid with the "1 +" of the denominator left out.
sigmoid_no_one(x) == FDiv(One, Exp(FNeg(x)))

sigmoid(x) == FDiv(One, FAdd(One, Exp(FNeg(x))))

\* generate_price_state without the left padding.
generate_price_state_unpadded(prices, now, window) ==
    LET start  == now - window
        period == Slice(prices, IF start >= 0 THEN start ELSE 0, now + 1)
    IN  IF \E i \in 0..(window - 1) : ~InRange(period, i + 1) THEN Raise("IndexError")
        ELSE Ok(<< [j \in 1..window |->
                      sigmoid(FSub(Index(period, j), Index(period, j - 1)))] >>)

\* generate_price_state padding with the current price instead of the first.
generate_price_state_pad_last(prices, now, window) ==
    LET start  == now - window
        period == IF start >= 0 THEN Slice(prices, start, now + 1)
                  ELSE Repeat(-start, Index(prices, now)) \o Slice(prices, 0, now + 1)
    IN  IF \E i \in 0..(window - 1) : ~InRange(period, i + 1) THEN Raise("IndexError")
        ELSE Ok(<< [j \in 1..window |->
                      sigmoid(FSub(Index(period, j), Index(period, j - 1)))] >>)

\* generate_price_state with each difference taken the other way round.
generate_price_state_reversed(prices, now, window) ==
    LET start  == now - window
        period == IF start >= 0 THEN Slice(prices, start, now + 1)
                  ELSE Repeat(-start, Index(prices, 0)) \o Slice(prices, 0, now + 1)
    IN  IF \E i \in 0..(window - 1) : ~InRange(period, i + 1) THEN Raise("IndexError")
        ELSE Ok(<< [j \in 1..window |->
                      sigmoid(FSub(Index(period, j - 1), Index(period, j)))] >>)

generate_price_state(prices, now, window) ==
    LET start  == now - window
        period == IF start >= 0 THEN Slice(prices, start, now + 1)
                  ELSE Repeat(-start, Index(prices, 0)) \o Slice(prices, 0, now + 1)
    IN  IF start < 0 /\ ~InRange(prices, 0) THEN Raise("IndexError")
        ELSE IF \E i \in 0..(window - 1) : ~InRange(period, i + 1) THEN Raise("IndexError")
        ELSE Ok(<< [j \in 1..window |->
                      sigmoid(FSub(Index(period, j), Index(period, j - 1)))] >>)

\* 1e-6
Epsilon == Round(1, 1, 1000000, 0)

generate_portfolio_state(stock_price, bal, holding) ==
    Ok(<< <<Log(stock_price), Log(bal), Log(FAdd(holding, Epsilon))>> >>)

\* generate_combined_state without the 1e-6 under the last logarithm.
generate_combined_state_no_epsilon(now, window, prices, bal, holding) ==
    LET start  == now - window
        period == IF start >= 0 THEN Slice(prices, start, now + 1)
                  ELSE Repeat(-start, Index(prices, 0)) \o Slice(prices, 0, now + 1)
    IN  IF \E i \in 0..(window - 1) : ~InRange(period, i + 1) THEN Raise("IndexError")
        ELSE Ok(<< [j \in 1..window |->
                      sigmoid(FSub(Index(period, j), Index(period, j - 1)))]
                   \o <<Log(Index(prices, now)), Log(bal), Log(holding)>> >>)

generate_combined_state(now, window, prices, bal, holding) ==
    LET start  == now - window
        period == IF start >= 0 THEN Slice(prices, start, now + 1)
                  ELSE Repeat(-start, Index(prices, 0)) \o Slice(prices, 0, now + 1)
    IN  IF start < 0 /\ ~InRange(prices, 0) THEN Raise("IndexError")
        ELSE IF \E i \in 0..(window - 1) : ~InRange(period, i + 1) THEN Raise("IndexError")
        ELSE IF ~InRange(prices, now) THEN Raise("IndexError")
        ELSE Ok(<< [j \in 1..window |->
                      sigmoid(FSub(Index(period, j), Index(period, j - 1)))]
                   \o <<Log(Index(prices, now)), Log(bal), Log(FAdd(holding, Epsilon))>> >>)

----------------------------------------------------------------------------
(* The encoder's calls. *)

\* All sequences over S of length 1 .. maxlen.
SeqsUpTo(S, maxlen) == UNION {[1..len -> S] : len \in 1..maxlen}

\* Close prices, in units of ln 2.  Their differences are 0, +-1, or so
\* large (62 and more) that float64 saturates on them as the model does.
PriceSet == {FromInt(1), FromInt(2), FromInt(64), FromInt(1280)}
BalanceSet == {FromInt(0), FromInt(5), FromInt(1024)}
HoldingSet == {FromInt(0), FromInt(1), FromInt(3)}

InitEncoder ==
    /\ stock_prices \in SeqsUpTo(PriceSet, MaxPrices)
    /\ t \in 0..(MaxPrices - 1)
    /\ t < Len(stock_prices)
    /\ n \in 0..MaxWindow
    /\ balance \in BalanceSet
    /\ num_holding \in HoldingSet
    /\ return_rates = <<>>
    /\ portfolio_values = <<>>
    /\ pc = "input"
    /\ result = Ok(<<>>)

CallGeneratePriceState ==
    /\ pc = "input"
    /\ result' = generate_price_state(stock_prices, t, n)
    /\ pc' = "generate_price_state"
    /\ UNCHANGED <<stock_prices, t, n, balance, num_holding, return_rates, portfolio_values>>

CallGeneratePortfolioState ==
    /\ pc = "input"
    /\ result' = generate_portfolio_state(Index(stock_prices, t), balance, num_holding)
    /\ pc' = "generate_portfolio_state"
    /\ UNCHANGED <<stock_prices, t, n, balance, num_holding, return_rates, portfolio_values>>

CallGenerateCombinedState ==
    /\ pc = "input"
    /\ result' = generate_combined_state(t, n, stock_prices, balance, num_holding)
    /\ pc' = "generate_combined_state"
    /\ UNCHANGED <<stock_prices, t, n, balance, num_holding, return_rates, portfolio_values>>

NextEncoder ==
    \/ CallGeneratePriceState
    \/ CallGeneratePortfolioState
    \/ CallGenerateCombinedState

SpecEncoder == InitEncoder /\ [][NextEncoder]_vars

----------------------------------------------------------------------------
(* The performance metrics. *)

\* (1 + 2.75 / 100) ** (1 / 365) - 1 = 7.43e-5
daily_treasury_bond_return_rate == Round(1, 743, 10000000, 0)

\* np.sum: the elements added from left to right.
RECURSIVE SumSeq(_)
SumSeq(xs) ==
    IF Len(xs) = 0 THEN Zero
    ELSE IF Len(xs) = 1 THEN xs[1]
    ELSE FAdd(SumSeq(SubSeq(xs, 1, Len(xs) - 1)), xs[Len(xs)])

\* np.mean: the sum divided by the count.
Mean(xs) == FDiv(SumSeq(xs), FromInt(Len(xs)))

\* np.std: the root of the mean of the squared deviations from the mean.
Std(xs) ==
    LET mu == Mean(xs)
    IN  FSqrt(Mean([i \in 1..Len(xs) |-> FMul(FSub(xs[i], mu), FSub(xs[i], mu))]))

\* The excess returns: return_rates - risk_free_rate.
Excess(rates) == [i \in 1..Len(rates) |-> FSub(rates[i], daily_treasury_bond_return_rate)]

\* `divided` records whether the call evaluated numerator / denominator.
sharpe_ratio_custom(rates) ==
    LET numerator   == Mean(Excess(rates))
        denominator == Std(Excess(rates))
    IN  IF denominator = Zero \/ numerator = Zero
        THEN [err |-> "none", val |-> Zero, divided |-> FALSE]
        ELSE [err |-> "none", val |-> FDiv(numerator, denominator), divided |-> TRUE]

\* np.maximum
FMax(a, b) == IF a.k = "nan" THEN a ELSE IF b.k = "nan" THEN b ELSE IF FLt(a, b) THEN b ELSE a

\* np.maximum.accumulate: the running maximum.
RECURSIVE Accumulate(_)
Accumulate(xs) ==
    IF Len(xs) <= 1 THEN xs
    ELSE LET head == Accumulate(SubSeq(xs, 1, Len(xs) - 1))
         IN  Append(head, FMax(head[Len(head)], xs[Len(xs)]))

\* np.argmax: the first index (from 0) of the largest element.
Argmax(xs) ==
    CHOOSE i \in 0..(Len(xs) - 1) :
        /\ \A j \in 0..(Len(xs) - 1) : ~FLt(Index(xs, i), Index(xs, j))
        /\ \A j \in 0..(i - 1) : FLt(Index(xs, j), Index(xs, i))

\* maximum_drawdown without the early return: argmax of an empty slice raises.
maximum_drawdown_unguarded(values) ==
    LET acc       == Accumulate(values)
        end_index == Argmax([i \in 1..Len(values) |-> FSub(acc[i], values[i])])
    IN  IF end_index = 0 THEN Raise("ValueError")
        ELSE LET beginning_iudex == Argmax(Slice(values, 0, end_index))
             IN  Ok(FDiv(FSub(Index(values, end_index), Index(values, beginning_iudex)),
                         Index(values, beginning_iudex)))

\* maximum_drawdown taking the peak over the whole sequence.
maximum_drawdown_global_peak(values) ==
    LET acc       == Accumulate(values)
        end_index == Argmax([i \in 1..Len(values) |-> FSub(acc[i], values[i])])
    IN  IF end_index = 0 THEN Ok(Zero)
        ELSE LET beginning_iudex == Argmax(values)
             IN  Ok(FDiv(FSub(Index(values, end_index), Index(values, beginning_iudex)),
                         Index(values, beginning_iudex)))

\* maximum_drawdown dividing by the trough instead of the peak.
maximum_drawdown_over_trough(values) ==
    LET acc       == Accumulate(values)
        end_index == Argmax([i \in 1..Len(values) |-> FSub(acc[i], values[i])])
    IN  IF end_index = 0 THEN Ok(Zero)
        ELSE LET beginning_iudex == Argmax(Slice(values, 0, end_index))
             IN  Ok(FDiv(FSub(Index(values, end_index), Index(values, beginning_iudex)),
                         Index(values, end_index)))

maximum_drawdown(values) ==
    LET acc       == Accumulate(values)
        end_index == Argmax([i \in 1..Len(values) |-> FSub(acc[i], values[i])])
    IN  IF end_index = 0 THEN Ok(Zero)
        ELSE LET beginning_iudex == Argmax(Slice(values, 0, end_index))
             IN  Ok(FDiv(FSub(Index(values, end_index), Index(values, beginning_iudex)),
                         Index(values, beginning_iudex)))

----------------------------------------------------------------------------
(* The metrics' calls. *)

\* Daily return rates: 0, the risk-free rate and its double, 11/512, -1/64.
ReturnSet ==
    {Zero, daily_treasury_bond_return_rate,
     FAdd(daily_treasury_bond_return_rate, daily_treasury_bond_return_rate),
     Round(1, 11, 512, 0), Round(-1, 1, 64, 0)}

InitSharpe ==
    /\ return_rates \in SeqsUpTo(ReturnSet, MaxReturns)
    /\ stock_prices = <<>>
    /\ t = 0
    /\ n = 0
    /\ balance = Zero
    /\ num_holding = Zero
    /\ portfolio_values = <<>>
    /\ pc = "input"
    /\ result = Ok(<<>>)

CallSharpeRatioCustom ==
    /\ pc = "input"
    /\ result' = sharpe_ratio_custom(return_rates)
    /\ pc' = "sharpe_ratio_custom"
    /\ UNCHANGED <<stock_prices, t, n, balance, num_holding, return_rates, portfolio_values>>

NextSharpe == CallSharpeRatioCustom

SpecSharpe == InitSharpe /\ [][NextSharpe]_vars

\* Strictly positive portfolio values: 1, 2, 6, 8 and 2^60, below whose
\* last place the small ones vanish in float64 as in the model.
ValueSet == {FromInt(1), FromInt(2), FromInt(6), FromInt(8), Round(1, 1, 1, 60)}

InitDrawdown ==
    /\ portfolio_values \in SeqsUpTo(ValueSet, MaxValues)
    /\ stock_prices = <<>>
    /\ t = 0
    /\ n = 0
    /\ balance = Zero
    /\ num_holding = Zero
    /\ return_rates = <<>>
    /\ pc = "input"
    /\ result = Ok(<<>>)

CallMaximumDrawdown ==
    /\ pc = "input"
    /\ result' = maximum_drawdown(portfolio_values)
    /\ pc' = "maximum_drawdown"
    /\ UNCHANGED <<stock_prices, t, n, balance, num_holding, return_rates, portfolio_values>>

NextDrawdown == CallMaximumDrawdown

SpecDrawdown == InitDrawdown /\ [][NextDrawdown]_vars

----------------------------------------------------------------------------
(* Properties of the encoder, checked under SpecEncoder. *)

\* The row a call returned.
Row == result.val[1]

\* The price at position i (0 .. n) of the window [t - n, t], the positions
\* before the start of the series holding the first price.
PadPrice(i) == Index(stock_prices, IF t - n + i < 0 THEN 0 ELSE t - n + i)

\* The j-th (1 .. n) adjacent difference of the window.
WindowDiff(j) == FSub(PadPrice(j), PadPrice(j - 1))

\* C1: for a non-empty series, 0 <= t < len(series) and n >= 0,
\* generate_price_state returns, without raising, one row of exactly n
\* elements, also when t < n.
C1_RowOfLengthN ==
    pc = "generate_price_state" =>
        /\ result.err = "none"
        /\ Len(result.val) = 1
        /\ Len(Row) = n

C1_Witness ==
    /\ pc = "generate_price_state"
    /\ Len(stock_prices) = 1
    /\ t < n
    /\ n = MaxWindow
    /\ result.err = "none"
    /\ Len(Row) = n

\* C2: for 0 <= t < n the result equals the encoding, at index n with window
\* n, of n - t copies of series[0] followed by series[0..t]: the first n - t
\* features are f(0), the last t are f(series[i+1] - series[i]), i = 0..t-1.
C2_Padding ==
    pc = "generate_price_state" /\ t < n =>
        /\ result = generate_price_state(
                        Repeat(n - t, Index(stock_prices, 0)) \o Slice(stock_prices, 0, t + 1),
                        n, n)
        /\ \A j \in 1..(n - t) : Row[j] = sigmoid(Zero)
        /\ \A i \in 0..(t - 1) :
              Row[n - t + i + 1] =
                  sigmoid(FSub(Index(stock_prices, i + 1), Index(stock_prices, i)))

C2_Witness ==
    /\ pc = "generate_price_state"
    /\ 0 < t
    /\ t < n
    /\ Index(stock_prices, 0) # Index(stock_prices, t)
    /\ Row[1] = sigmoid(Zero)
    /\ Row[n] # sigmoid(Zero)

\* C3: for n <= t < len(series), feature i (0 .. n-1) is
\* f(series[t-n+i+1] - series[t-n+i]); the prices outside [t-n, t] do not
\* influence the result.
C3_Window ==
    pc = "generate_price_state" /\ n <= t =>
        /\ result.err = "none"
        /\ \A i \in 0..(n - 1) :
              Row[i + 1] = sigmoid(FSub(Index(stock_prices, t - n + i + 1),
                                        Index(stock_prices, t - n + i)))
        /\ result = generate_price_state(Slice(stock_prices, t - n, t + 1), n, n)

C3_Witness ==
    /\ pc = "generate_price_state"
    /\ 1 <= n
    /\ n < t
    /\ Index(stock_prices, 0) # Index(stock_prices, t - n)
    /\ Row[1] # sigmoid(Zero)

\* C4, as claimed: every element of the row is strictly greater than 0 and
\* strictly less than 1.
C4_StrictlyInside ==
    pc = "generate_price_state" =>
        \A j \in 1..n : FLt(Zero, Row[j]) /\ FLt(Row[j], One)

\* C4, amended: every element of the row is in the closed interval [0, 1];
\* it is exactly 1 when 1 + exp(-d) rounds to 1 for its difference d,
\* exactly 0 when exp(-d) overflows to infinity, and strictly between 0 and
\* 1 otherwise.
C4_ClosedInterval ==
    pc = "generate_price_state" =>
        \A j \in 1..n :
            /\ FLe(Zero, Row[j])
            /\ FLe(Row[j], One)
            /\ Row[j] = One <=> FAdd(One, Exp(FNeg(WindowDiff(j)))) = One
            /\ Row[j] = Zero <=> Exp(FNeg(WindowDiff(j))) = Inf(1)

C4_Witness ==
    /\ pc = "generate_price_state"
    /\ \E j \in 1..n : Row[j] = One
    /\ \E j \in 1..n : Row[j] = Zero
    /\ \E j \in 1..n : FLt(Zero, Row[j]) /\ FLt(Row[j], One)

\* C5: generate_combined_state returns one row of length n + 3: the n
\* elements of generate_price_state(series, t, n) followed by the three of
\* generate_portfolio_state(series[t], balance, num_holding), which are
\* log(series[t]), log(balance), log(num_holding + 1e-6).
C5_Combined ==
    pc = "generate_combined_state" =>
        /\ result.err = "none"
        /\ Len(result.val) = 1
        /\ Len(Row) = n + 3
        /\ SubSeq(Row, 1, n) = generate_price_state(stock_prices, t, n).val[1]
        /\ SubSeq(Row, n + 1, n + 3) =
              generate_portfolio_state(Index(stock_prices, t), balance, num_holding).val[1]
        /\ SubSeq(Row, n + 1, n + 3) =
              <<Log(Index(stock_prices, t)), Log(balance), Log(FAdd(num_holding, Epsilon))>>

C5_Witness ==
    /\ pc = "generate_combined_state"
    /\ 0 < t
    /\ t < n
    /\ num_holding = Zero
    /\ Len(Row) = n + 3
    /\ Row[n + 3] = Log(Epsilon)

----------------------------------------------------------------------------
(* Properties of sharpe_ratio_custom, checked under SpecSharpe. *)

AllReturnsEqual == \A i \in 1..Len(return_rates) : return_rates[i] = return_rates[1]

\* C6, without its case of equal returns: the call returns exactly 0 and
\* divides nothing when the standard deviation or the mean of the excess
\* returns is zero, returns mean / standard deviation otherwise, and never
\* divides by zero.
C6_Guard ==
    pc = "sharpe_ratio_custom" =>
        LET mean == Mean(Excess(return_rates))
            std  == Std(Excess(return_rates))
        IN  /\ (std = Zero \/ mean = Zero) => result.val = Zero /\ ~result.divided
            /\ ~(std = Zero \/ mean = Zero) =>
                  result.val = FDiv(mean, std) /\ result.divided
            /\ result.val # DivZero

\* C6: as C6_Guard, and in particular the call returns exactly 0, dividing
\* nothing, whenever all returns are equal.
C6_ZeroOnDegenerate ==
    /\ C6_Guard
    /\ pc = "sharpe_ratio_custom" /\ AllReturnsEqual =>
          result.val = Zero /\ ~result.divided

----------------------------------------------------------------------------
(* Properties of maximum_drawdown, checked under SpecDrawdown. *)

PV(i) == Index(portfolio_values, i)
LastIndex == Len(portfolio_values) - 1

\* Some value is lower than an earlier one.
HasDrop == \E i \in 0..LastIndex : \E j \in (i + 1)..LastIndex : FLt(PV(j), PV(i))

\* The largest of the values at 0 .. i.
RunMaxAt(i) == CHOOSE x \in {PV(j) : j \in 0..i} : \A j \in 0..i : FLe(PV(j), x)

DropAt(i) == FSub(RunMaxAt(i), PV(i))

\* The first index at which the drop below the running maximum is largest.
TroughIndex ==
    CHOOSE i \in 0..LastIndex :
        /\ \A j \in 0..LastIndex : FLe(DropAt(j), DropAt(i))
        /\ \A j \in 0..(i - 1) : FLt(DropAt(j), DropAt(i))

\* The first index of the largest of the values before the trough.
PeakIndex ==
    CHOOSE i \in 0..(TroughIndex - 1) :
        /\ \A j \in 0..(TroughIndex - 1) : FLe(PV(j), PV(i))
        /\ \A j \in 0..(i - 1) : FLt(PV(j), PV(i))

\* C7: maximum_drawdown returns 0 for every non-decreasing sequence.
C7_ZeroWithoutDrop ==
    pc = "maximum_drawdown" /\ ~HasDrop => result = Ok(Zero)

C7_Witness ==
    /\ pc = "maximum_drawdown"
    /\ Len(portfolio_values) >= 3
    /\ \A i \in 1..LastIndex : FLt(PV(i - 1), PV(i))
    /\ result = Ok(Zero)

\* C8: when the sequence contains a drop, the result is (v[e] - v[b]) / v[b],
\* e the first index of the largest drop below the running maximum and b the
\* first index of the maximum of v[0..e-1]; v[b] is the running maximum at e.
C8_PeakBeforeTrough ==
    pc = "maximum_drawdown" /\ HasDrop =>
        /\ TroughIndex > 0
        /\ result = Ok(FDiv(FSub(PV(TroughIndex), PV(PeakIndex)), PV(PeakIndex)))
        /\ PV(PeakIndex) = RunMaxAt(TroughIndex)

C8_Witness ==
    /\ pc = "maximum_drawdown"
    /\ HasDrop
    /\ PeakIndex > 0
    /\ TroughIndex < LastIndex
    /\ FLt(PV(PeakIndex), PV(LastIndex))
    /\ result = Ok(FDiv(FSub(PV(TroughIndex), PV(PeakIndex)), PV(PeakIndex)))

\* The fractional declines (v[j] - v[i]) / v[i] over the pairs i < j with
\* v[j] < v[i].
Declines ==
    {FDiv(FSub(PV(j), PV(i)), PV(i)) :
        <<i, j>> \in {<<a, b>> \in (0..LastIndex) \X (0..LastIndex) : a < b /\ FLt(PV(b), PV(a))}}

\* C9: maximum_drawdown returns the largest fractional decline from a peak
\* to a later trough, the minimum of (v[j] - v[i]) / v[i] over i < j, or 0
\* when no value is lower than an earlier one.
C9_LargestFractionalDecline ==
    pc = "maximum_drawdown" =>
        IF HasDrop
        THEN result.val \in Declines /\ \A d \in Declines : FLe(result.val, d)
        ELSE result.val = Zero

MinusOne == FromInt(-1)

\* C10, as claimed: the result is never positive and greater than -1,
\* strictly negative exactly when some value is lower than an earlier one.
C10_AboveMinusOne ==
    pc = "maximum_drawdown" =>
        /\ FLe(result.val, Zero)
        /\ FLt(MinusOne, result.val)
        /\ FLt(result.val, Zero) <=> HasDrop

\* C10, amended: the result is never positive and never below -1; it is
\* strictly negative exactly when some value is lower than an earlier one,
\* and it is -1 only when trough - peak rounds to -peak.
C10_Range ==
    pc = "maximum_drawdown" =>
        /\ FLe(result.val, Zero)
        /\ FLe(MinusOne, result.val)
        /\ FLt(result.val, Zero) <=> HasDrop
        /\ result.val = MinusOne =>
              FSub(PV(TroughIndex), PV(PeakIndex)) = FNeg(PV(PeakIndex))

C10_Witness ==
    /\ pc = "maximum_drawdown"
    /\ \E i \in 0..LastIndex : FLt(Zero, PV(i)) /\ FLt(PV(i), RunMaxAt(LastIndex))
    /\ result.val = MinusOne

====
